---- MODULE Spec2Model ----
(***************************************************************************)
(* Shapelet discovery pipeline of find_shapelets_simpilified.py            *)
(* (ShapeletFinder) and the threshold check of shapelets_evaluation.py.    *)
(*                                                                         *)
(* Numbers: the program works on floats.  The model keeps every real       *)
(* quantity as a fixed point integer with SCALE units per 1.0, square      *)
(* roots are integer square roots.  Indices are 0-based as in the program; *)
(* TLA+ sequences are 1-based, so element i of an array is seq[i + 1].     *)
(***************************************************************************)
EXTENDS Integers, Sequences, FiniteSets, TLC

\* ---------------------------------------------------------------- bounds
\* fixed point units per 1.0
SCALE == 10
\* largest N_max the constructor is given
MaxN == 3
\* largest sl_max the constructor is given
MaxSl == 5
\* number of findingshapelets calls made on one instance
MaxRuns == 3
\* longest distance sequence predict_all returns, and its largest distance
MaxLen == 3
MaxDist == 3

\* ------------------------------------------------------- generic helpers
\* None is the empty sequence, a present value v is << v >>
NoneVal == << >>
Some(v) == << v >>

SetMax(S) == CHOOSE x \in S : \A y \in S : y <= x
SetMin(S) == CHOOSE x \in S : \A y \in S : x <= y

RECURSIVE SumSeq(_)
SumSeq(s) == IF Len(s) = 0 THEN 0 ELSE Head(s) + SumSeq(Tail(s))

RECURSIVE SortedSeq(_)
\* np.unique: the sorted sequence of the distinct members
SortedSeq(S) ==
    IF S = {} THEN << >>
    ELSE LET m == SetMin(S) IN << m >> \o SortedSeq(S \ {m})

RECURSIVE Concat(_)
\* np.concatenate / np.vstack of a list of arrays along the first axis
Concat(ss) == IF Len(ss) = 0 THEN << >> ELSE Head(ss) \o Concat(Tail(ss))

\* floor of the square root
ISqrt(n) == CHOOSE r \in 0..n : r * r <= n /\ n < (r + 1) * (r + 1)

\* a dict: a function whose domain is the set of keys written so far
EmptyDict == [k \in {} |-> 0]
Put(d, k, v) == [x \in (DOMAIN d) \cup {k} |-> IF x = k THEN v ELSE d[x]]

\* ------------------------------------------------------------ time series
\* data[key][:, axis]
Col(ts, a) == [t \in 1..Len(ts) |-> ts[t][a + 1]]
\* np.diff
Diff(x) == [t \in 1..(Len(x) - 1) |-> x[t + 1] - x[t]]

\* scipy argrelmin / argrelmax (mode='clip'): index i is kept when x[i] is
\* strictly below (above) x at every shift 1..order on both sides, the shifted
\* index clipped into the array
ClipIdx(i, n) == IF i < 0 THEN 0 ELSE IF i > n - 1 THEN n - 1 ELSE i
argrelmin(x, order) ==
    {i \in 0..(Len(x) - 1) : \A s \in 1..order :
        /\ x[i + 1] < x[ClipIdx(i + s, Len(x)) + 1]
        /\ x[i + 1] < x[ClipIdx(i - s, Len(x)) + 1]}
argrelmax(x, order) ==
    {i \in 0..(Len(x) - 1) : \A s \in 1..order :
        /\ x[i + 1] > x[ClipIdx(i + s, Len(x)) + 1]
        /\ x[i + 1] > x[ClipIdx(i - s, Len(x)) + 1]}

\* the four keydefaultdict factories of reset()
MinimaOf(ts, a, w_e) == argrelmin(Col(ts, a), w_e)
MaximaOf(ts, a, w_e) == argrelmax(Col(ts, a), w_e)
DerivativeMinimaOf(ts, a, w_e) == argrelmin(Diff(Col(ts, a)), w_e)
DerivativeMaximaOf(ts, a, w_e) == argrelmax(Diff(Col(ts, a)), w_e)

\* ----------------------------------------- subsequences, z-normalization
NumAxes(ts) == IF Len(ts) = 0 THEN 0 ELSE Len(ts[1])

\* subsequences(ts, w): every contiguous window of length w, stride 1; none
\* when w exceeds the series
NumSubs(ts, w) == IF Len(ts) - w + 1 > 0 THEN Len(ts) - w + 1 ELSE 0
RawSub(ts, w, p) == [t \in 1..w |-> ts[p + t]]

\* w * sum(x^2) - sum(x)^2 = w^2 * variance, of one axis of one window
VarW2(x) == Len(x) * SumSeq([t \in 1..Len(x) |-> x[t] * x[t]]) - SumSeq(x) * SumSeq(x)
\* per-axis standard deviation in fixed point; 0 for the empty window
StdOf(x) == IF Len(x) = 0 THEN 0 ELSE ISqrt(SCALE * SCALE * VarW2(x)) \div Len(x)

\* one axis of one window: (x - mean) / std, left raw when std is below sigma
\* (or zero)
ZAxis(x, sigma) ==
    IF StdOf(x) = 0 \/ StdOf(x) < sigma
    THEN [t \in 1..Len(x) |-> SCALE * x[t]]
    ELSE [t \in 1..Len(x) |->
            (SCALE * SCALE * (Len(x) * x[t] - SumSeq(x))) \div ISqrt(SCALE * SCALE * VarW2(x))]

\* z_normalize(subsequences(ts, w)): shape (positions, w, axes)
z_normalize(ts, w, sigma) ==
    [p \in 1..NumSubs(ts, w) |->
        LET sub == RawSub(ts, w, p - 1)
            cols == [a \in 1..NumAxes(ts) |-> ZAxis([t \in 1..w |-> sub[t][a]], sigma)]
        IN [t \in 1..w |-> [a \in 1..NumAxes(ts) |-> cols[a][t]]]]

\* array[:, :, a] for a in dim_s, stacked on the last axis
Project(subs, dim_s) ==
    [p \in 1..Len(subs) |->
        [t \in 1..Len(subs[p]) |-> [k \in 1..Len(dim_s) |-> subs[p][t][dim_s[k] + 1]]]]

\* Euclidean distance of two equal-shaped windows, in fixed point
Dist(s1, s2) ==
    ISqrt(SumSeq([t \in 1..Len(s1) |->
        SumSeq([k \in 1..Len(s1[t]) |-> (s1[t][k] - s2[t][k]) * (s1[t][k] - s2[t][k])])]))

\* ------------------------------------------------------------- clustering
\* Clustering(d_max).fit(shapelets); nn_centers(): repeatedly take the
\* remaining candidate with the most remaining candidates within d_max (the
\* first such in input order), drop everything within d_max of it, until none
\* remains; the representatives in the order chosen
Near(cs, i, rem, dmax) == {j \in rem : Dist(cs[i], cs[j]) <= dmax}
RECURSIVE ClusterLoop(_, _, _)
ClusterLoop(cs, rem, dmax) ==
    IF rem = {} THEN << >>
    ELSE LET best == SetMax({Cardinality(Near(cs, i, rem, dmax)) : i \in rem})
             c == SetMin({i \in rem : Cardinality(Near(cs, i, rem, dmax)) = best})
         IN << cs[c] >> \o ClusterLoop(cs, (rem \ Near(cs, c, rem, dmax)) \ {c}, dmax)
cluster(shapelets, dmax) == ClusterLoop(shapelets, 1..Len(shapelets), dmax)

\* --------------------------------------------------------- the classifier
\* 1000 * n * H(k / n), the entropy of k positives among n, for the n the
\* model reaches
EntropyN(k, n) ==
    IF k = 0 \/ k = n THEN 0
    ELSE IF 2 * k = n THEN 1000 * n
    ELSE IF n = 3 THEN 2755
    ELSE IF n = 4 THEN 3245
    ELSE IF n = 5 /\ (k = 1 \/ k = 4) THEN 3610
    ELSE IF n = 5 THEN 4855
    ELSE (4000 * k * (n - k)) \div n

\* the split at delta: a series is on the low side when its BMD is below delta
LowSide(dist_X, delta) == {i \in 1..Len(dist_X) : dist_X[i] < delta}
Positives(target, S) == Cardinality({i \in S : target[i] = 1})
GainAt(dist_X, target, delta) ==
    LET all == 1..Len(dist_X)
        lo == LowSide(dist_X, delta)
        hi == all \ lo
    IN EntropyN(Positives(target, all), Cardinality(all))
        - EntropyN(Positives(target, lo), Cardinality(lo))
        - EntropyN(Positives(target, hi), Cardinality(hi))
\* the split points: one below every value, one above the maximum
SplitPoints(dist_X) ==
    IF Len(dist_X) = 0 THEN {0}
    ELSE {dist_X[i] : i \in 1..Len(dist_X)}
            \cup {SetMax({dist_X[i] : i \in 1..Len(dist_X)}) + 1}
\* the margin between the two sides of the split
MarginAt(dist_X, delta) ==
    LET lo == LowSide(dist_X, delta)
        hi == (1..Len(dist_X)) \ lo
    IN IF lo = {} \/ hi = {} THEN 0
       ELSE SetMin({dist_X[i] : i \in hi}) - SetMax({dist_X[i] : i \in lo})
\* ShapeletClassifier(shapelet, dim_s).fit_precomputed(dist_X, target)
fit_precomputed(shapelet, dim_s, dist_X, target) ==
    LET best == SetMax({GainAt(dist_X, target, d) : d \in SplitPoints(dist_X)})
        delta == SetMin({d \in SplitPoints(dist_X) : GainAt(dist_X, target, d) = best})
    IN [shapelet |-> shapelet, dim_s |-> dim_s, delta |-> delta,
        information_gain |-> best, f_c_delta |-> MarginAt(dist_X, delta)]

\* ---------------------------------------------------- ShapeletFinder parts
\* calc_windows: [(sl_max * i) / N_max for i in range(1, N_max + 1)], integer
\* division
calc_windows(sl, n) == [i \in 1..n |-> (sl * i) \div n]

\* get_unique_targets, as the sequence in which the set is iterated
RECURSIVE LabelSetOf(_)
LabelSetOf(tg) ==
    IF Len(tg) = 0 THEN {}
    ELSE {Head(tg)[k] : k \in 1..Len(Head(tg))} \cup LabelSetOf(Tail(tg))
RECURSIVE LabelSeq(_)
LabelSeq(S) ==
    IF S = {} THEN << >>
    ELSE LET l == CHOOSE x \in S : TRUE IN << l >> \o LabelSeq(S \ {l})
get_unique_targets(tg) == LabelSeq(LabelSetOf(tg))

\* list(powerset(range(n)))[1:]
powerset_tail(n) ==
    IF n = 0 THEN << >>
    ELSE IF n = 1 THEN << <<0>> >>
    ELSE IF n = 2 THEN << <<0>>, <<1>>, <<0, 1>> >>
    ELSE << <<0>>, <<1>>, <<2>>, <<0, 1>>, <<0, 2>>, <<1, 2>>, <<0, 1, 2>> >>

\* cmp with the tie-break on f_c_delta turned around
cmp_larger_margin(c1, c2) ==
    IF c1.information_gain > c2.information_gain
        \/ (c1.information_gain = c2.information_gain /\ c1.f_c_delta > c2.f_c_delta)
    THEN -1 ELSE 1

\* cmp of cmp_classifier: -1 when classifier1 has the higher gain, or the same
\* gain and the smaller f_c_delta; 1 otherwise
cmp(c1, c2) ==
    IF c1.information_gain > c2.information_gain
        \/ (c1.information_gain = c2.information_gain /\ c1.f_c_delta < c2.f_c_delta)
    THEN -1 ELSE 1
\* cmp_classifier on optional classifiers; None has no information_gain, which
\* raises AttributeError: reported as 0, a value cmp never returns
cmp_classifier(classifier1, classifier2) ==
    IF classifier1 = NoneVal THEN 0 ELSE cmp(classifier1[1], classifier2[1])

\* ------------------------------------------------------------------ state
VARIABLES
    \* constructor arguments kept on the instance (sigma_min is overwritten by
    \* estimate_sigma_min), and the sigma_min argument as it was given
    d_max, N_max, w_ext, sigma_min, sl_max, sigma_arg,
    \* the module global shapelet_utils.sigma_min
    global_sigma_min,
    \* the four keydefaultdict caches, keyed << ts_id, axis >>
    minima, maxima, derivative_minima, derivative_maxima,
    \* fields set by findingshapelets
    data, target, windows, unique_labels, shapelets, dimensions_subsets,
    z_data, dist_shapelet_ts,
    \* locals of findingshapelets: where it is, its loop indices, its values
    pc, ts_i, ds_i, w_i, l_i, c_i,
    bsf_classifier, binary_target, classifier_candidates,
    \* how the call ended: the returned dict, the exception raised with the
    \* line raising it ("" if none)
    result, err,
    \* the calls still to be made on the instance, each << data, target >>
    pending,
    \* history: per run, how often each key of z_data, shapelets and
    \* dist_shapelet_ts was assigned; the start offsets of the last
    \* prune_shapelet_candidates call; the keys build_classifier read; the
    \* first result returned for each << data, target >>
    z_writes, pool_writes, bmd_writes, last_prune, read_keys, first_result,
    \* shapelets_evaluation.evaluation: position, predict_all's distance
    \* sequence, cls.delta, the loop index, flag
    e_pc, ds, classifier_threshold, e_i, flag

cfgVars == << d_max, N_max, w_ext, sl_max, sigma_arg >>
sigmaVars == << sigma_min, global_sigma_min >>
cacheVars == << minima, maxima, derivative_minima, derivative_maxima >>
fieldVars == << data, target, windows, unique_labels, dimensions_subsets >>
loopVars == << ts_i, ds_i, w_i, l_i, c_i >>
classVars == << bsf_classifier, binary_target, classifier_candidates >>
histVars == << z_writes, pool_writes, bmd_writes, last_prune, read_keys, first_result >>
evalVars == << e_pc, ds, classifier_threshold, e_i, flag >>
vars == << cfgVars, sigmaVars, cacheVars, fieldVars, shapelets, z_data, dist_shapelet_ts,
           pc, loopVars, classVars, result, err, pending, histVars, evalVars >>

Count(d, k) == IF k \in DOMAIN d THEN d[k] ELSE 0
Bump(d, k) == Put(d, k, Count(d, k) + 1)

\* ------------------------------------------------------ estimate_sigma_min
\* ids of the series without label
Unlabeled(tg) == {id \in 0..(Len(tg) - 1) : Len(tg[id + 1]) = 0}
\* ts_subs.std(axis=1).max() of one series at window w
MaxStd(ts, w) ==
    SetMax({StdOf([t \in 1..w |-> RawSub(ts, w, p)[t][a]]) :
                p \in 0..(NumSubs(ts, w) - 1), a \in 1..NumAxes(ts)})
\* the exception estimate_sigma_min raises, "" if none: min() of an empty
\* window list, max() of an array without positions
EstimateErr(dt, tg, ws, sig) ==
    IF sig # NoneVal \/ Unlabeled(tg) = {} THEN ""
    ELSE IF Len(ws) = 0 THEN "ValueError line 69"
    ELSE IF \E id \in Unlabeled(tg) :
                NumSubs(dt[id + 1], SetMin({ws[k] : k \in 1..Len(ws)})) = 0
         THEN "ValueError line 70"
    ELSE ""
\* the value left in self.sigma_min
estimate_sigma_min(dt, tg, ws, sig) ==
    IF sig # NoneVal THEN sig
    ELSE LET w == SetMin({ws[k] : k \in 1..Len(ws)})
         IN Some(SetMax({0} \cup {MaxStd(dt[id + 1], w) : id \in Unlabeled(tg)}))

\* --------------------------------------------------- prune_shapelet_candidates
\* the factory of each of the four keydefaultdict caches (lines 53-58)
Factory(kind, series, axis) ==
    CASE kind = "minima" -> MinimaOf(series, axis, w_ext)
      [] kind = "maxima" -> MaximaOf(series, axis, w_ext)
      [] kind = "derivative_minima" -> DerivativeMinimaOf(series, axis, w_ext)
      [] OTHER -> DerivativeMaximaOf(series, axis, w_ext)

\* keydefaultdict: the entries of cache after the keys (ts_id, a), a in dim_s,
\* were read; a missing entry is computed from the current self.data
Fill(cache, ts_id, dim_s, kind) ==
    [k \in (DOMAIN cache) \cup {<< ts_id, dim_s[j] >> : j \in 1..Len(dim_s)} |->
        IF k \in DOMAIN cache THEN cache[k] ELSE Factory(kind, data[k[1] + 1], k[2])]

\* lines 244-246: shift left by half the window, then the two clamps
StartOffset(i, shapelet_length, length) ==
    LET shifted == i - (shapelet_length \div 2)
        low == IF shifted < 0 THEN 0 ELSE shifted
    IN IF low > length - shapelet_length THEN length - shapelet_length ELSE low

\* numpy index i into an array of n rows: negative indices count from the end
InRange(i, n) == -n <= i /\ i < n
PyIdx(i, n) == IF i < 0 THEN n + i ELSE i

\* defaultdict(lambda: None) of pools, then np.vstack
Vstack(all, label, rows) ==
    Put(all, label, (IF label \in DOMAIN all THEN all[label] ELSE << >>) \o rows)
RECURSIVE AppendAll(_, _, _)
AppendAll(all, labels, rows) ==
    IF Len(labels) = 0 THEN all
    ELSE AppendAll(Vstack(all, Head(labels), rows), Tail(labels), rows)

\* the loop over the series (lines 237-258); st carries the four caches, the
\* pools, the offsets used per series and the exception raised
RECURSIVE PruneLoop(_, _, _, _)
PruneLoop(ts_id, st, shapelet_length, dim_s) ==
    IF ts_id = Len(data) \/ st.err # "" THEN st
    ELSE
        LET mi == Fill(st.minima, ts_id, dim_s, "minima")
            ma == Fill(st.maxima, ts_id, dim_s, "maxima")
            dmi == Fill(st.derivative_minima, ts_id, dim_s, "derivative_minima")
            dma == Fill(st.derivative_maxima, ts_id, dim_s, "derivative_maxima")
            raw == UNION {mi[<< ts_id, dim_s[j] >>] \cup ma[<< ts_id, dim_s[j] >>]
                            \cup dmi[<< ts_id, dim_s[j] >>] \cup dma[<< ts_id, dim_s[j] >>] :
                          j \in 1..Len(dim_s)}
            ids == {StartOffset(i, shapelet_length, Len(data[ts_id + 1])) : i \in raw}
            subs == Project(z_data[<< ts_id, shapelet_length >>], dim_s)
            order == SortedSeq(ids)
            picked == [k \in 1..Len(order) |-> subs[PyIdx(order[k], Len(subs)) + 1]]
            filled == [st EXCEPT !.minima = mi, !.maxima = ma,
                                 !.derivative_minima = dmi, !.derivative_maxima = dma]
        IN IF raw = {} THEN [filled EXCEPT !.err = "ValueError line 242"]
           ELSE IF \E i \in ids : ~InRange(i, Len(subs))
           THEN [filled EXCEPT !.err = "IndexError line 252", !.ids = Put(st.ids, ts_id, ids)]
           ELSE PruneLoop(ts_id + 1,
                    [filled EXCEPT !.ids = Put(st.ids, ts_id, ids),
                                   !.all_shapelets =
                                        AppendAll(st.all_shapelets, target[ts_id + 1], picked)],
                    shapelet_length, dim_s)

\* the whole call: the loop, then cluster() on every pool
prune_shapelet_candidates(shapelet_length, dim_s) ==
    LET st == PruneLoop(0, [minima |-> minima, maxima |-> maxima,
                            derivative_minima |-> derivative_minima,
                            derivative_maxima |-> derivative_maxima,
                            all_shapelets |-> EmptyDict, ids |-> EmptyDict, err |-> ""],
                        shapelet_length, dim_s)
    IN IF st.err # "" THEN st
       ELSE [st EXCEPT !.all_shapelets =
                [k \in DOMAIN st.all_shapelets |-> cluster(st.all_shapelets[k], d_max)]]

\* ---------------------------------------------------------- precompute_bmd
\* muh: the pools of all labels for (axis, shapelet_length), concatenated in
\* the iteration order of unique_labels
Muh(axis, shapelet_length) ==
    Concat([k \in 1..Len(unique_labels) |->
                shapelets[<< unique_labels[k], axis, shapelet_length >>]])
\* distance_matrix3D(muh, ts).min(axis=1): per row of muh the least distance
\* to a position of ts
MinDist(shapelet, ts) == SetMin({Dist(shapelet, ts[p]) : p \in 1..Len(ts)})
\* a running index that starts again at 0 for every label
BmdIndexPerLabel(k, shapelet_id, axis, shapelet_length) == shapelet_id

\* the value of the running index i when the loops of lines 207-211 reach
\* shapelet shapelet_id of the k-th label
BmdIndex(k, shapelet_id, axis, shapelet_length) ==
    SumSeq([m \in 1..(k - 1) |->
                Len(shapelets[<< unique_labels[m], axis, shapelet_length >>])])
        + shapelet_id
\* the (label position, shapelet_id) pairs the loops of lines 207-211 visit
BmdPairs(axis, shapelet_length) ==
    UNION {{<< k, sid >> :
                sid \in 0..(Len(shapelets[<< unique_labels[k], axis, shapelet_length >>]) - 1)} :
           k \in 1..Len(unique_labels)}
\* dist_shapelet_ts after the iteration (ts_id, axis, shapelet_length)
BmdWrite(dist, ts_id, axis, shapelet_length) ==
    LET muh == Muh(axis, shapelet_length)
        ts == Project(z_data[<< ts_id, shapelet_length >>], axis)
        d_m == [r \in 1..Len(muh) |-> MinDist(muh[r], ts)]
        keyOf(pr) == << ts_id, pr[2], unique_labels[pr[1]], shapelet_length, axis >>
        pairs == BmdPairs(axis, shapelet_length)
    IN [x \in (DOMAIN dist) \cup {keyOf(pr) : pr \in pairs} |->
            IF \E pr \in pairs : keyOf(pr) = x
            THEN LET pr == CHOOSE q \in pairs : keyOf(q) = x
                 IN d_m[BmdIndex(pr[1], pr[2], axis, shapelet_length) + 1]
            ELSE dist[x]]
\* the exception the iteration raises, "" if none: concatenate of no pools,
\* a pool missing from self.shapelets, min over no positions
BmdErr(ts_id, axis, shapelet_length) ==
    IF Len(unique_labels) = 0 THEN "ValueError line 202"
    ELSE IF \E k \in 1..Len(unique_labels) :
                << unique_labels[k], axis, shapelet_length >> \notin DOMAIN shapelets
         THEN "KeyError line 202"
    ELSE IF Len(Muh(axis, shapelet_length)) > 0 /\ Len(z_data[<< ts_id, shapelet_length >>]) = 0
         THEN "ValueError line 205"
    ELSE ""

\* --------------------------------------------------------- build_classifier
\* the key of dist_shapelet_ts read for (ts_id, shapelet_id)
ReadKey(ts_id, shapelet_id, label, pool, dim_s) ==
    << ts_id, shapelet_id, label, Len(pool[1]), dim_s >>
BuildErr(pool, label, dim_s) ==
    IF Len(pool) = 0 THEN "IndexError line 279"
    ELSE IF \E sid \in 0..(Len(pool) - 1), t \in 0..(Len(data) - 1) :
                ReadKey(t, sid, label, pool, dim_s) \notin DOMAIN dist_shapelet_ts
         THEN "KeyError line 283"
    ELSE ""
build_classifier(pool, bt, label, dim_s) ==
    [s \in 1..Len(pool) |->
        fit_precomputed(pool[s], dim_s,
            [t \in 1..Len(data) |-> dist_shapelet_ts[ReadKey(t - 1, s - 1, label, pool, dim_s)]],
            bt)]

\* ------------------------------------------------------------------ inputs
\* two-axis series, one row << x, y >> per sample
SeriesA == << <<0, 1>>, <<2, 1>>, <<0, 0>>, <<1, 1>> >>
SeriesB == << <<1, 2>>, <<0, 0>>, <<2, 1>>, <<0, 1>> >>
\* no local extremum on either axis
SeriesRamp == << <<0, 0>>, <<1, 0>>, <<2, 0>>, <<2, 0>> >>
SeriesLong == << <<0, 1>>, <<0, 0>>, <<0, 1>>, <<2, 0>>, <<0, 1>> >>
SeriesPool == {SeriesA, SeriesB, SeriesRamp, SeriesLong}
LabelRows == {<< >>, << "A" >>, << "B" >>, << "A", "B" >>}
DataSets == {<< a, b >> : a \in SeriesPool, b \in SeriesPool}
TargetSets == {<< r, q >> : r \in LabelRows, q \in LabelRows}
Calls == {<< dt, tg >> : dt \in DataSets, tg \in TargetSets}

\* the state after __init__ (which ends in reset()) with the given arguments,
\* before the calls in calls are made
InitWith(dm, nm, we, sg, sl, calls) ==
    /\ d_max = dm /\ N_max = nm /\ w_ext = we /\ sigma_min = sg /\ sl_max = sl
    /\ sigma_arg = sg
    /\ global_sigma_min = NoneVal
    /\ minima = EmptyDict /\ maxima = EmptyDict
    /\ derivative_minima = EmptyDict /\ derivative_maxima = EmptyDict
    /\ data = << >> /\ target = << >> /\ windows = << >> /\ unique_labels = << >>
    /\ shapelets = EmptyDict /\ dimensions_subsets = << >>
    /\ z_data = EmptyDict /\ dist_shapelet_ts = EmptyDict
    /\ pc = "idle"
    /\ ts_i = 0 /\ ds_i = 0 /\ w_i = 0 /\ l_i = 0 /\ c_i = 0
    /\ bsf_classifier = EmptyDict /\ binary_target = << >> /\ classifier_candidates = << >>
    /\ result = EmptyDict /\ err = ""
    /\ pending = calls
    /\ z_writes = EmptyDict /\ pool_writes = EmptyDict /\ bmd_writes = EmptyDict
    /\ last_prune = [window |-> 0, dim_s |-> << >>, ids |-> EmptyDict]
    /\ read_keys = {} /\ first_result = EmptyDict

\* evaluation() is not running
EvalOff ==
    e_pc = "off" /\ ds = << >> /\ classifier_threshold = 0 /\ e_i = 0 /\ flag = FALSE

\* ------------------------------------------------------------------ reset
\* reset(): four fresh keydefaultdicts; callable between calls
Reset ==
    /\ pc \in {"idle", "done", "error"}
    /\ e_pc = "off"
    /\ minima' = EmptyDict /\ maxima' = EmptyDict
    /\ derivative_minima' = EmptyDict /\ derivative_maxima' = EmptyDict
    /\ UNCHANGED << cfgVars, sigmaVars, fieldVars, shapelets, z_data, dist_shapelet_ts,
                    pc, loopVars, classVars, result, err, pending, histVars, evalVars >>

\* -------------------------------------------------------- findingshapelets
\* lines 147-156 and 220: the fields are set, sigma_min is estimated, the
\* z_data dict is created; an exception of estimate_sigma_min ends the call
Start ==
    /\ pc \in {"idle", "done", "error"}
    /\ e_pc = "off"
    /\ Len(pending) > 0
    /\ LET dt == Head(pending)[1]
           tg == Head(pending)[2]
           ws == calc_windows(sl_max, N_max)
           e == EstimateErr(dt, tg, ws, sigma_min)
       IN /\ data' = dt /\ target' = tg /\ windows' = ws
          /\ pending' = Tail(pending)
          /\ result' = EmptyDict
          /\ z_writes' = EmptyDict /\ pool_writes' = EmptyDict /\ bmd_writes' = EmptyDict
          /\ read_keys' = {}
          /\ last_prune' = [window |-> 0, dim_s |-> << >>, ids |-> EmptyDict]
          /\ ts_i' = 0 /\ ds_i' = 0 /\ w_i' = 0 /\ l_i' = 0 /\ c_i' = 0
          /\ binary_target' = << >> /\ classifier_candidates' = << >>
          /\ IF e # ""
             THEN /\ pc' = "error" /\ err' = e
                  /\ UNCHANGED << sigmaVars, unique_labels, bsf_classifier, shapelets,
                                  dimensions_subsets, z_data >>
             ELSE /\ pc' = "z_norm" /\ err' = ""
                  /\ sigma_min' = estimate_sigma_min(dt, tg, ws, sigma_min)
                  /\ global_sigma_min' = sigma_min'
                  /\ unique_labels' = get_unique_targets(tg)
                  /\ bsf_classifier' = EmptyDict
                  /\ shapelets' = EmptyDict
                  /\ dimensions_subsets' = powerset_tail(NumAxes(dt[1]))
                  /\ z_data' = EmptyDict
    /\ UNCHANGED << cfgVars, cacheVars, dist_shapelet_ts, first_result, evalVars >>

\* precompute_z_norm, one iteration of lines 221-223
ZNormStep ==
    /\ pc = "z_norm" /\ w_i < Len(windows) /\ Len(data) > 0
    /\ LET w == windows[w_i + 1]
       IN /\ z_data' = Put(z_data, << ts_i, w >>,
                           z_normalize(data[ts_i + 1], w, global_sigma_min[1]))
          /\ z_writes' = Bump(z_writes, << ts_i, w >>)
    /\ IF ts_i + 1 < Len(data)
       THEN ts_i' = ts_i + 1 /\ w_i' = w_i
       ELSE ts_i' = 0 /\ w_i' = w_i + 1
    /\ UNCHANGED << cfgVars, sigmaVars, cacheVars, fieldVars, shapelets, dist_shapelet_ts,
                    pc, ds_i, l_i, c_i, classVars, result, err, pending,
                    pool_writes, bmd_writes, last_prune, read_keys, first_result, evalVars >>

\* precompute_z_norm returns; the loop of line 159 is entered
ZNormEnd ==
    /\ pc = "z_norm" /\ (w_i = Len(windows) \/ Len(data) = 0)
    /\ pc' = "prune" /\ ds_i' = 0 /\ w_i' = 0 /\ ts_i' = 0
    /\ UNCHANGED << cfgVars, sigmaVars, cacheVars, fieldVars, shapelets, z_data,
                    dist_shapelet_ts, l_i, c_i, classVars, result, err, pending,
                    histVars, evalVars >>

\* one iteration of lines 163-167: prune_shapelet_candidates (which fills the
\* extrema caches on first access and clusters), then the pools are stored
PruneStep ==
    /\ pc = "prune" /\ ds_i < Len(dimensions_subsets) /\ Len(windows) > 0
    /\ LET dim_s == dimensions_subsets[ds_i + 1]
           window == windows[w_i + 1]
           st == prune_shapelet_candidates(window, dim_s)
       IN /\ minima' = st.minima /\ maxima' = st.maxima
          /\ derivative_minima' = st.derivative_minima
          /\ derivative_maxima' = st.derivative_maxima
          /\ last_prune' = [window |-> window, dim_s |-> dim_s, ids |-> st.ids]
          /\ IF st.err # ""
             THEN /\ pc' = "error" /\ err' = st.err
                  /\ UNCHANGED << shapelets, pool_writes, ds_i, w_i >>
             ELSE /\ shapelets' =
                        [k \in (DOMAIN shapelets)
                                \cup {<< l, dim_s, window >> : l \in DOMAIN st.all_shapelets} |->
                            IF k[2] = dim_s /\ k[3] = window /\ k[1] \in DOMAIN st.all_shapelets
                            THEN st.all_shapelets[k[1]] ELSE shapelets[k]]
                  /\ pool_writes' =
                        [k \in (DOMAIN pool_writes)
                                \cup {<< l, dim_s, window >> : l \in DOMAIN st.all_shapelets} |->
                            IF k[2] = dim_s /\ k[3] = window /\ k[1] \in DOMAIN st.all_shapelets
                            THEN Count(pool_writes, k) + 1 ELSE pool_writes[k]]
                  /\ IF w_i + 1 < Len(windows)
                     THEN w_i' = w_i + 1 /\ ds_i' = ds_i
                     ELSE w_i' = 0 /\ ds_i' = ds_i + 1
                  /\ UNCHANGED << pc, err >>
    /\ UNCHANGED << cfgVars, sigmaVars, fieldVars, z_data, dist_shapelet_ts, ts_i, l_i, c_i,
                    classVars, result, pending, z_writes, bmd_writes, read_keys,
                    first_result, evalVars >>

\* the loop of line 159 ends; precompute_bmd is entered (line 196)
PruneEnd ==
    /\ pc = "prune" /\ (ds_i = Len(dimensions_subsets) \/ Len(windows) = 0)
    /\ pc' = "bmd" /\ dist_shapelet_ts' = EmptyDict
    /\ ts_i' = 0 /\ ds_i' = 0 /\ w_i' = 0
    /\ UNCHANGED << cfgVars, sigmaVars, cacheVars, fieldVars, shapelets, z_data, l_i, c_i,
                    classVars, result, err, pending, histVars, evalVars >>

\* precompute_bmd, one iteration of lines 202-211, but for z_data
BmdBody ==
    /\ pc = "bmd" /\ ts_i < Len(data)
    /\ Len(dimensions_subsets) > 0 /\ Len(windows) > 0
    /\ LET axis == dimensions_subsets[ds_i + 1]
           shapelet_length == windows[w_i + 1]
           e == BmdErr(ts_i, axis, shapelet_length)
       IN IF e # ""
          THEN /\ pc' = "error" /\ err' = e
               /\ UNCHANGED << dist_shapelet_ts, bmd_writes, ts_i, ds_i, w_i >>
          ELSE /\ dist_shapelet_ts' = BmdWrite(dist_shapelet_ts, ts_i, axis, shapelet_length)
               /\ bmd_writes' =
                    [k \in (DOMAIN bmd_writes) \cup (DOMAIN dist_shapelet_ts') |->
                        IF k[1] = ts_i /\ k[4] = shapelet_length /\ k[5] = axis
                        THEN Count(bmd_writes, k) + 1 ELSE bmd_writes[k]]
               /\ IF w_i + 1 < Len(windows)
                  THEN w_i' = w_i + 1 /\ ds_i' = ds_i /\ ts_i' = ts_i
                  ELSE IF ds_i + 1 < Len(dimensions_subsets)
                  THEN w_i' = 0 /\ ds_i' = ds_i + 1 /\ ts_i' = ts_i
                  ELSE w_i' = 0 /\ ds_i' = 0 /\ ts_i' = ts_i + 1
               /\ UNCHANGED << pc, err >>
    /\ UNCHANGED << cfgVars, sigmaVars, cacheVars, fieldVars, shapelets, l_i, c_i,
                    classVars, result, pending, pool_writes, last_prune, read_keys,
                    first_result, evalVars >>

\* a precompute_bmd that normalizes the series again instead of reading z_data
BmdStepRenormalize ==
    /\ BmdBody
    /\ z_data' = Put(z_data, << ts_i, windows[w_i + 1] >>,
                     z_normalize(data[ts_i + 1], windows[w_i + 1], global_sigma_min[1]))
    /\ z_writes' = Bump(z_writes, << ts_i, windows[w_i + 1] >>)

\* precompute_bmd, one iteration of lines 202-211: z_data is only read
BmdStep ==
    /\ BmdBody
    /\ UNCHANGED << z_data, z_writes >>

\* precompute_bmd returns; the loop of line 171 is entered
BmdEnd ==
    /\ pc = "bmd"
    /\ (ts_i = Len(data) \/ Len(dimensions_subsets) = 0 \/ Len(windows) = 0)
    /\ pc' = "label" /\ l_i' = 0 /\ ts_i' = 0 /\ ds_i' = 0 /\ w_i' = 0
    /\ UNCHANGED << cfgVars, sigmaVars, cacheVars, fieldVars, shapelets, z_data,
                    dist_shapelet_ts, c_i, classVars, result, err, pending, histVars, evalVars >>

\* line 172: the binary target of the next label
LabelStart ==
    /\ pc = "label" /\ l_i < Len(unique_labels)
    /\ binary_target' =
            [t \in 1..Len(target) |->
                IF \E k \in 1..Len(target[t]) : target[t][k] = unique_labels[l_i + 1]
                THEN 1 ELSE 0]
    /\ pc' = "build" /\ ds_i' = 0 /\ w_i' = 0
    /\ UNCHANGED << cfgVars, sigmaVars, cacheVars, fieldVars, shapelets, z_data,
                    dist_shapelet_ts, ts_i, l_i, c_i, bsf_classifier, classifier_candidates,
                    result, err, pending, histVars, evalVars >>

\* lines 177-179: the classifiers of one (label, dimension_subset, window)
BuildStep ==
    /\ pc = "build" /\ ds_i < Len(dimensions_subsets) /\ Len(windows) > 0
    /\ LET label == unique_labels[l_i + 1]
           dimension_subset == dimensions_subsets[ds_i + 1]
           window == windows[w_i + 1]
           key == << label, dimension_subset, window >>
           e == IF key \notin DOMAIN shapelets THEN "KeyError line 178"
                ELSE BuildErr(shapelets[key], label, dimension_subset)
       IN IF e # ""
          THEN /\ pc' = "error" /\ err' = e
               /\ UNCHANGED << classifier_candidates, read_keys, c_i >>
          ELSE /\ classifier_candidates' =
                    build_classifier(shapelets[key], binary_target, label, dimension_subset)
               /\ read_keys' = read_keys \cup
                    {ReadKey(t, sid, label, shapelets[key], dimension_subset) :
                        t \in 0..(Len(data) - 1), sid \in 0..(Len(shapelets[key]) - 1)}
               /\ c_i' = 0 /\ pc' = "cmp"
               /\ UNCHANGED err
    /\ UNCHANGED << cfgVars, sigmaVars, cacheVars, fieldVars, shapelets, z_data,
                    dist_shapelet_ts, ts_i, ds_i, w_i, l_i, bsf_classifier, binary_target,
                    result, pending, z_writes, pool_writes, bmd_writes, last_prune,
                    first_result, evalVars >>

\* bsf_classifier[label] of the defaultdict(lambda: None)
Bsf(label) == IF label \in DOMAIN bsf_classifier THEN bsf_classifier[label] ELSE NoneVal

\* lines 181-185: the candidate replaces the best so far when cmp_classifier
\* is positive or raises AttributeError
Replaces(best, classifier) ==
    cmp_classifier(best, classifier) > 0 \/ cmp_classifier(best, classifier) = 0

CmpStep ==
    /\ pc = "cmp" /\ c_i < Len(classifier_candidates)
    /\ LET label == unique_labels[l_i + 1]
           classifier == Some(classifier_candidates[c_i + 1])
       IN bsf_classifier' =
            Put(bsf_classifier, label,
                IF Replaces(Bsf(label), classifier) THEN classifier ELSE Bsf(label))
    /\ c_i' = c_i + 1
    /\ UNCHANGED << cfgVars, sigmaVars, cacheVars, fieldVars, shapelets, z_data,
                    dist_shapelet_ts, pc, ts_i, ds_i, w_i, l_i, binary_target,
                    classifier_candidates, result, err, pending, histVars, evalVars >>

\* the loop of line 180 ends; the next (dimension_subset, window)
CmpEnd ==
    /\ pc = "cmp" /\ c_i = Len(classifier_candidates)
    /\ pc' = "build"
    /\ IF w_i + 1 < Len(windows)
       THEN w_i' = w_i + 1 /\ ds_i' = ds_i
       ELSE w_i' = 0 /\ ds_i' = ds_i + 1
    /\ UNCHANGED << cfgVars, sigmaVars, cacheVars, fieldVars, shapelets, z_data,
                    dist_shapelet_ts, ts_i, l_i, c_i, classVars, result, err, pending,
                    histVars, evalVars >>

\* line 187: the best classifier of the label is paired with its target
LabelEnd ==
    /\ pc = "build" /\ (ds_i = Len(dimensions_subsets) \/ Len(windows) = 0)
    /\ bsf_classifier' =
            Put(bsf_classifier, unique_labels[l_i + 1],
                << Bsf(unique_labels[l_i + 1]), binary_target >>)
    /\ l_i' = l_i + 1 /\ pc' = "label"
    /\ UNCHANGED << cfgVars, sigmaVars, cacheVars, fieldVars, shapelets, z_data,
                    dist_shapelet_ts, ts_i, ds_i, w_i, c_i, binary_target,
                    classifier_candidates, result, err, pending, histVars, evalVars >>

\* (delta, gain, f_c_delta) per label of a returned dict
Triples(res) ==
    [l \in DOMAIN res |->
        IF res[l][1] = NoneVal THEN NoneVal
        ELSE << res[l][1][1].delta, res[l][1][1].information_gain, res[l][1][1].f_c_delta >>]

\* line 188
Return ==
    /\ pc = "label" /\ l_i = Len(unique_labels)
    /\ pc' = "done" /\ result' = bsf_classifier
    /\ first_result' =
            IF << data, target >> \in DOMAIN first_result THEN first_result
            ELSE Put(first_result, << data, target >>, Triples(bsf_classifier))
    /\ UNCHANGED << cfgVars, sigmaVars, cacheVars, fieldVars, shapelets, z_data,
                    dist_shapelet_ts, loopVars, classVars, err, pending,
                    z_writes, pool_writes, bmd_writes, last_prune, read_keys, evalVars >>

\* ------------------------------------------- shapelets_evaluation.evaluation
\* line 52: flag = False, the loop over ds starts
EvalStart ==
    /\ e_pc = "start"
    /\ flag' = FALSE /\ e_i' = 0 /\ e_pc' = "loop"
    /\ UNCHANGED << cfgVars, sigmaVars, cacheVars, fieldVars, shapelets, z_data,
                    dist_shapelet_ts, pc, loopVars, classVars, result, err, pending, histVars,
                    ds, classifier_threshold >>

\* the loop step with the comparison distance <= classifier_threshold
EvalStepAtMost ==
    /\ e_pc = "loop" /\ e_i < Len(ds)
    /\ IF ds[e_i + 1] <= classifier_threshold
       THEN flag' = TRUE /\ e_pc' = "returned" /\ e_i' = e_i
       ELSE flag' = flag /\ e_pc' = "loop" /\ e_i' = e_i + 1
    /\ UNCHANGED << cfgVars, sigmaVars, cacheVars, fieldVars, shapelets, z_data,
                    dist_shapelet_ts, pc, loopVars, classVars, result, err, pending, histVars,
                    ds, classifier_threshold >>

\* lines 53-56: one distance; the first one below the threshold sets the flag
\* and leaves the loop
EvalStep ==
    /\ e_pc = "loop" /\ e_i < Len(ds)
    /\ IF ds[e_i + 1] < classifier_threshold
       THEN flag' = TRUE /\ e_pc' = "returned" /\ e_i' = e_i
       ELSE flag' = flag /\ e_pc' = "loop" /\ e_i' = e_i + 1
    /\ UNCHANGED << cfgVars, sigmaVars, cacheVars, fieldVars, shapelets, z_data,
                    dist_shapelet_ts, pc, loopVars, classVars, result, err, pending, histVars,
                    ds, classifier_threshold >>

\* lines 57-62: the loop ran out; flag is returned
EvalEnd ==
    /\ e_pc = "loop" /\ e_i = Len(ds)
    /\ e_pc' = "returned"
    /\ UNCHANGED << cfgVars, sigmaVars, cacheVars, fieldVars, shapelets, z_data,
                    dist_shapelet_ts, pc, loopVars, classVars, result, err, pending, histVars,
                    ds, classifier_threshold, e_i, flag >>

\* ------------------------------------------------------- specifications
Next ==
    \/ Reset \/ Start
    \/ ZNormStep \/ ZNormEnd
    \/ PruneStep \/ PruneEnd
    \/ BmdStep \/ BmdEnd
    \/ LabelStart \/ BuildStep \/ CmpStep \/ CmpEnd \/ LabelEnd
    \/ Return

\* one call on a fresh instance with a valid configuration (one window of
\* length 3, or the windows 2 and 4), on any two series of the pool, the first
\* labelled A or A and B, the second unlabelled or labelled B
MainCalls ==
    {c \in Calls : c[2][1] \in {<< "A" >>, << "A", "B" >>} /\ c[2][2] \in {<< >>, << "B" >>}}
Init ==
    /\ \E sg \in {NoneVal, Some(6)}, nm \in 1..2, c \in MainCalls :
            InitWith(SCALE, nm, 1, sg, nm + 2, << c >>)
    /\ EvalOff
Spec == Init /\ [][Next]_vars

\* one call on a fresh instance, any configuration the constructor accepts,
\* on two data sets
CfgCalls ==
    {<< << SeriesA, SeriesB >>, << << "A" >>, << "B" >> >> >>,
     << << SeriesLong, SeriesA >>, << << "A", "B" >>, << >> >> >>}
InitCfg ==
    /\ \E dm \in {0, SCALE}, nm \in 0..MaxN, we \in 1..2, sg \in {NoneVal, Some(6)},
          sl \in 1..MaxSl, c \in CfgCalls :
            InitWith(dm, nm, we, sg, sl, << c >>)
    /\ EvalOff
SpecCfg == InitCfg /\ [][Next]_vars

\* up to MaxRuns calls on one instance, reset() at will between them
ReuseCalls ==
    {<< << SeriesA, SeriesB >>, << << "A" >>, << "B" >> >> >>,
     << << SeriesB, SeriesLong >>, << << "A" >>, << >> >> >>}
RECURSIVE SeqsUpTo(_, _)
SeqsUpTo(S, n) ==
    IF n = 0 THEN {<< >>}
    ELSE SeqsUpTo(S, n - 1) \cup {<< x >> \o q : x \in S, q \in {r \in SeqsUpTo(S, n - 1) : Len(r) = n - 1}}
InitReuse ==
    /\ \E sg \in {NoneVal, Some(6)}, calls \in SeqsUpTo(ReuseCalls, MaxRuns) :
            InitWith(SCALE, 1, 1, sg, 2, calls)
    /\ EvalOff
SpecReuse == InitReuse /\ [][Next]_vars

\* evaluation() on any distance sequence and threshold
NextEval == EvalStart \/ EvalStep \/ EvalEnd
InitEval ==
    /\ InitWith(SCALE, 1, 1, NoneVal, 1, << >>)
    /\ e_pc = "start" /\ e_i = 0 /\ flag = FALSE
    /\ ds \in SeqsUpTo(0..MaxDist, MaxLen)
    /\ classifier_threshold \in 0..(MaxDist + 1)
SpecEval == InitEval /\ [][NextEval]_vars


\* ================================================================== claims
\* A beats B: higher gain, or the same gain and the smaller f_c_delta
Beats(a, b) ==
    a.information_gain > b.information_gain
    \/ (a.information_gain = b.information_gain /\ a.f_c_delta < b.f_c_delta)
\* the binary target of a label
BinaryTargetOf(label) ==
    [t \in 1..Len(target) |->
        IF \E k \in 1..Len(target[t]) : target[t][k] = label THEN 1 ELSE 0]
\* every candidate classifier built for a label, over all dimension subsets,
\* window lengths and clustered shapelets
AllCandidates(label) ==
    UNION {LET cs == build_classifier(shapelets[<< label, dimensions_subsets[d], windows[w] >>],
                                      BinaryTargetOf(label), label, dimensions_subsets[d])
           IN {cs[k] : k \in 1..Len(cs)} :
           d \in 1..Len(dimensions_subsets), w \in 1..Len(windows)}
LabelsOf == {unique_labels[k] : k \in 1..Len(unique_labels)}

\* C1: when findingshapelets has returned, the classifier returned for a label
\* is one of the candidates built for that label and no candidate built for
\* that label beats it (higher gain wins whatever the margins, equal gains
\* are decided by the smaller f_c_delta).
C1_BestSelected ==
    pc = "done" =>
        \A l \in LabelsOf :
            AllCandidates(l) # {} =>
                /\ result[l][1] # NoneVal
                /\ result[l][1][1] \in AllCandidates(l)
                /\ \A c \in AllCandidates(l) : ~Beats(c, result[l][1][1])
\* a returned label whose candidates differ in gain and, among those of the
\* best gain, in f_c_delta
C1_Witness ==
    /\ pc = "done"
    /\ \E l \in LabelsOf :
        /\ \E c \in AllCandidates(l) :
                c.information_gain < result[l][1][1].information_gain
        /\ \E c \in AllCandidates(l) :
                /\ c.information_gain = result[l][1][1].information_gain
                /\ c.f_c_delta > result[l][1][1].f_c_delta

\* the best matching distance by brute force: the least distance of the
\* shapelet to any window of the series at its length and dimension subset
BruteBmd(shapelet, ts_id, shapelet_length, dim_s) ==
    LET subs == Project(z_normalize(data[ts_id + 1], shapelet_length, global_sigma_min[1]), dim_s)
    IN SetMin({Dist(shapelet, subs[p]) : p \in 1..Len(subs)})
\* the keys the BMD cache must hold
ExpectedBmdKeys ==
    UNION {{<< t, sid, unique_labels[k], windows[w], dimensions_subsets[d] >> :
                sid \in 0..(Len(shapelets[<< unique_labels[k], dimensions_subsets[d], windows[w] >>]) - 1)} :
           t \in 0..(Len(data) - 1), k \in 1..Len(unique_labels),
           w \in 1..Len(windows), d \in 1..Len(dimensions_subsets)}

\* C2: once precompute_bmd has returned, the BMD cache holds exactly one entry
\* per (series, shapelet, label, window length, dimension subset) of the
\* clustered pools, each the least distance of that very shapelet to the
\* windows of that series, and build_classifier has read only such entries
\* (all of them when findingshapelets returns).
C2_BmdCache ==
    (pc \in {"label", "done"} /\ err = "") =>
        /\ DOMAIN dist_shapelet_ts = ExpectedBmdKeys
        /\ \A key \in ExpectedBmdKeys :
                dist_shapelet_ts[key] =
                    BruteBmd(shapelets[<< key[3], key[5], key[4] >>][key[2] + 1],
                             key[1], key[4], key[5])
        /\ read_keys \subseteq ExpectedBmdKeys
        /\ (pc = "done" => read_keys = ExpectedBmdKeys)
\* precompute_bmd has returned with two labels whose pools for one (dimension
\* subset, window length) hold different shapelets at the same shapelet id,
\* at different distances to one series
C2_Witness ==
    /\ pc = "done"
    /\ Len(unique_labels) = 2
    /\ \E key \in DOMAIN dist_shapelet_ts :
        LET other == << key[1], key[2], unique_labels[1], key[4], key[5] >>
        IN /\ key[3] = unique_labels[2]
           /\ other \in DOMAIN dist_shapelet_ts
           /\ dist_shapelet_ts[other] # dist_shapelet_ts[key]

\* x clamped into lo..hi
Clamp(x, lo, hi) == IF x < lo THEN lo ELSE IF x > hi THEN hi ELSE x
\* the raw and derivative extrema of a series over the axes of dim_s
ExtremaOf(ts, dim_s) ==
    UNION {MinimaOf(ts, dim_s[j], w_ext) \cup MaximaOf(ts, dim_s[j], w_ext)
                \cup DerivativeMinimaOf(ts, dim_s[j], w_ext)
                \cup DerivativeMaximaOf(ts, dim_s[j], w_ext) :
           j \in 1..Len(dim_s)}

\* C3: in every prune_shapelet_candidates call, for every series it reached,
\* the start offsets are exactly the extremum indices shifted left by half the
\* window and clamped into [0, length - window], and every offset lies in
\* [0, length - window].
C3_StartOffsets ==
    \A ts_id \in DOMAIN last_prune.ids :
        LET length == Len(data[ts_id + 1])
            window == last_prune.window
        IN /\ last_prune.ids[ts_id] =
                {Clamp(i - (window \div 2), 0, length - window) :
                    i \in ExtremaOf(data[ts_id + 1], last_prune.dim_s)}
           /\ \A o \in last_prune.ids[ts_id] : 0 <= o /\ o <= length - window
\* the same restricted to the windows that fit the series (holds)
C3_FittingWindows ==
    \A ts_id \in DOMAIN last_prune.ids :
        LET length == Len(data[ts_id + 1])
            window == last_prune.window
        IN window <= length =>
           /\ last_prune.ids[ts_id] =
                {Clamp(i - (window \div 2), 0, length - window) :
                    i \in ExtremaOf(data[ts_id + 1], last_prune.dim_s)}
           /\ \A o \in last_prune.ids[ts_id] : 0 <= o /\ o <= length - window

\* C4: for N_max >= 1 and sl_max >= 1 the window list of calc_windows is
\* strictly increasing, has length N_max, and every value lies in (0, sl_max].
C4_Windows ==
    (pc # "idle" /\ N_max >= 1 /\ sl_max >= 1) =>
        /\ Len(windows) = N_max
        /\ \A i \in 1..Len(windows) : 0 < windows[i] /\ windows[i] <= sl_max
        /\ \A i \in 1..(Len(windows) - 1) : windows[i] < windows[i + 1]
\* the same for N_max <= sl_max (holds)
C4_EnoughLengths ==
    (pc # "idle" /\ N_max >= 1 /\ sl_max >= N_max) =>
        /\ Len(windows) = N_max
        /\ \A i \in 1..Len(windows) : 0 < windows[i] /\ windows[i] <= sl_max
        /\ \A i \in 1..(Len(windows) - 1) : windows[i] < windows[i + 1]

\* the configuration errors of spec section 7, for the data of the call
ShortestSeries == SetMin({Len(data[t]) : t \in 1..Len(data)})
InvalidConfiguration ==
    d_max <= 0 \/ N_max < 1 \/ (Len(data) > 0 /\ sl_max < ShortestSeries)
\* nothing has been computed on the instance
NothingComputed ==
    /\ windows = << >> /\ sigma_min = sigma_arg /\ global_sigma_min = NoneVal
    /\ z_data = EmptyDict /\ shapelets = EmptyDict /\ dist_shapelet_ts = EmptyDict
    /\ minima = EmptyDict /\ maxima = EmptyDict
    /\ derivative_minima = EmptyDict /\ derivative_maxima = EmptyDict

\* C5: with d_max <= 0, N_max < 1 or sl_max below the shortest series length,
\* a findingshapelets call ends with an error before anything is computed: no
\* window list, sigma_min estimate, z-normalization, extrema, pool or BMD entry.
C5_UpfrontValidation ==
    (pc # "idle" /\ InvalidConfiguration) => (pc = "error" /\ NothingComputed)

\* the series the last prune_shapelet_candidates call reached that have no
\* extremum of any kind on any axis of its dimension subset
NoExtremaSeries ==
    {ts_id \in 0..(Len(data) - 1) :
        /\ last_prune.dim_s # << >>
        /\ << ts_id, last_prune.dim_s[1] >> \in DOMAIN minima
        /\ ExtremaOf(data[ts_id + 1], last_prune.dim_s) = {}}

\* C6: a series without any extremum on the axes of the dimension subset does
\* not make prune_shapelet_candidates raise; it contributes no candidates.
C6_EmptyExtremaValid ==
    \A ts_id \in NoExtremaSeries :
        /\ err = ""
        /\ ts_id \in DOMAIN last_prune.ids => last_prune.ids[ts_id] = {}

\* C7: every findingshapelets call that returns gives, per label, the (delta,
\* gain, f_c_delta) that the first returned call on the same instance with the
\* same data and targets gave, whatever calls were made in between and
\* whether or not reset() was called.
C7_Idempotent ==
    pc = "done" => Triples(result) = first_result[<< data, target >>]

\* positions of a findingshapelets call: pruning and clustering, BMD
\* precomputation, classifier fitting
PruningPcs == {"prune"}
BmdPcs == {"bmd"}
FittingPcs == {"label", "build", "cmp"}
SearchPcs == PruningPcs \cup BmdPcs \cup FittingPcs

\* C8 as claimed: no step from pruning on writes an extrema cache or the
\* z-normalization cache; no step of classifier fitting writes a BMD entry; no
\* step after pruning writes a pool.
C8_AllCachesBeforeSearch ==
    [][/\ pc \in SearchPcs => UNCHANGED << cacheVars, z_data, z_writes >>
       /\ pc \in FittingPcs => UNCHANGED << dist_shapelet_ts, bmd_writes >>
       /\ pc \in BmdPcs \cup FittingPcs => UNCHANGED << shapelets, pool_writes >>]_vars

\* C8 as amended: the z-normalization cache is written only before pruning;
\* the extrema caches are written only by the pruning steps (filled on first
\* access), never by normalization, BMD precomputation or classifier fitting;
\* no step of classifier fitting writes a BMD entry; no step after pruning
\* writes a pool.
C8_PhaseOrder ==
    [][/\ pc \in SearchPcs => UNCHANGED << z_data, z_writes >>
       /\ pc \in {"z_norm"} \cup BmdPcs \cup FittingPcs => UNCHANGED cacheVars
       /\ pc \in FittingPcs => UNCHANGED << dist_shapelet_ts, bmd_writes >>
       /\ pc \in BmdPcs \cup FittingPcs => UNCHANGED << shapelets, pool_writes >>]_vars
\* classifier fitting is under way, with the extrema caches, the normalized
\* windows, the pools and the BMD entries all written
C8_Witness ==
    /\ pc = "cmp"
    /\ minima # EmptyDict /\ derivative_maxima # EmptyDict
    /\ z_data # EmptyDict /\ shapelets # EmptyDict /\ dist_shapelet_ts # EmptyDict

\* C9: during one findingshapelets run with N_max >= 1 and sl_max >= 1 no key
\* of the z-normalization cache, of the pool map or of the BMD cache is
\* written twice, and when the run returns every key was written once.
C9_WriteOnce ==
    (N_max >= 1 /\ sl_max >= 1) =>
        /\ \A k \in DOMAIN z_writes : z_writes[k] = 1
        /\ \A k \in DOMAIN pool_writes : pool_writes[k] = 1
        /\ \A k \in DOMAIN bmd_writes : bmd_writes[k] = 1
        /\ pc = "done" =>
            /\ DOMAIN z_writes = DOMAIN z_data
            /\ DOMAIN pool_writes = DOMAIN shapelets
            /\ DOMAIN bmd_writes = DOMAIN dist_shapelet_ts
\* the same for N_max <= sl_max, where the window lengths are distinct (holds)
C9_DistinctWindows ==
    (N_max >= 1 /\ sl_max >= N_max) =>
        /\ \A k \in DOMAIN z_writes : z_writes[k] = 1
        /\ \A k \in DOMAIN pool_writes : pool_writes[k] = 1
        /\ \A k \in DOMAIN bmd_writes : bmd_writes[k] = 1
        /\ pc = "done" =>
            /\ DOMAIN z_writes = DOMAIN z_data
            /\ DOMAIN pool_writes = DOMAIN shapelets
            /\ DOMAIN bmd_writes = DOMAIN dist_shapelet_ts

\* C10: evaluation returns True exactly when the distance sequence is not
\* empty and its minimum is strictly below the classifier's threshold.
C10_Evaluation ==
    e_pc = "returned" =>
        (flag <=> (Len(ds) > 0 /\ SetMin({ds[i] : i \in 1..Len(ds)}) < classifier_threshold))
\* returned True on a distance found after one that equals the threshold
C10_Witness ==
    /\ e_pc = "returned" /\ flag
    /\ e_i > 0 /\ ds[1] = classifier_threshold

\* the candidates of a label in the order in which the loops of lines 175-180
\* meet them: dimension subset, then window length, then shapelet id
CandidateSeq(label) ==
    LET n == Len(dimensions_subsets) * Len(windows)
        At(j) == build_classifier(
                    shapelets[<< label, dimensions_subsets[((j - 1) \div Len(windows)) + 1],
                                 windows[((j - 1) % Len(windows)) + 1] >>],
                    BinaryTargetOf(label), label,
                    dimensions_subsets[((j - 1) \div Len(windows)) + 1])
    IN Concat([j \in 1..n |-> At(j)])
\* the candidate the loop is about to compare, and the label's best so far
Candidate == classifier_candidates[c_i + 1]
Best == Bsf(unique_labels[l_i + 1])
Comparing == pc = "cmp" /\ c_i < Len(classifier_candidates)

\* C11: in the best-so-far loop a label's first candidate is always adopted,
\* and a best-so-far classifier is replaced by a later candidate only if that
\* candidate beats it (strictly higher gain, or equal gain and strictly
\* smaller f_c_delta), so a candidate that ties with it leaves it in place.
C11_ReplacedOnlyByBetter ==
    [][Comparing =>
        /\ Best = NoneVal => bsf_classifier'[unique_labels[l_i + 1]] = Some(Candidate)
        /\ (Best # NoneVal /\ bsf_classifier'[unique_labels[l_i + 1]] # Best)
                => Beats(Candidate, Best[1])]_vars
\* the consequence drawn by C11: the classifier returned for a label is the
\* first, in iteration order, of the candidates that no candidate beats
C11_FirstRetained ==
    pc = "done" =>
        \A l \in LabelsOf :
            LET cs == CandidateSeq(l)
                top == {k \in 1..Len(cs) : \A j \in 1..Len(cs) : ~Beats(cs[j], cs[k])}
            IN top # {} => result[l][1] = Some(cs[SetMin(top)])
\* what lines 181-185 do: the first candidate is adopted, a later one replaces
\* the best so far exactly when the best so far does not beat it (holds)
C11_ReplacedUnlessWorse ==
    [][Comparing =>
        bsf_classifier'[unique_labels[l_i + 1]] =
            IF Best = NoneVal \/ ~Beats(Best[1], Candidate)
            THEN Some(Candidate) ELSE Best]_vars
\* so the last of the unbeaten candidates is the one returned (holds)
C11_LastRetained ==
    pc = "done" =>
        \A l \in LabelsOf :
            LET cs == CandidateSeq(l)
                top == {k \in 1..Len(cs) : \A j \in 1..Len(cs) : ~Beats(cs[j], cs[k])}
            IN top # {} => result[l][1] = Some(cs[SetMax(top)])
\* the loop is about to compare a candidate that ties with a different best so far
C11_Witness ==
    /\ Comparing /\ Best # NoneVal /\ Best[1] # Candidate
    /\ Best[1].information_gain = Candidate.information_gain
    /\ Best[1].f_c_delta = Candidate.f_c_delta
====
